---- MODULE Spec2Model ----
(***************************************************************************)
(* Model of CruiseControlSystem (cruise_control_simulation.py): the PID    *)
(* controller with saturation and anti-windup, the first-order engine lag, *)
(* the vehicle dynamics and the time-stepping loop of simulate().          *)
(*                                                                         *)
(* Numbers are exact rationals <<n, d>> (d > 0, lowest terms): the model   *)
(* follows the arithmetic of the code over the reals; the rounding of      *)
(* IEEE doubles, inf and nan are outside it (no parameter set here has     *)
(* m = 0 or tau_engine = 0).                                               *)
(***************************************************************************)
EXTENDS Integers, Sequences, FiniteSets, TLC

\* The number of operations a caller performs on one object.
MaxOps == 2

(***************************************************************************)
(* Rational arithmetic.                                                    *)
(***************************************************************************)
Abs(n) == IF n < 0 THEN -n ELSE n

RECURSIVE GCD(_, _)
GCD(a, b) == IF b = 0 THEN a ELSE GCD(b, a % b)

Norm(n, d) ==
    LET g == GCD(Abs(n), Abs(d))
        s == IF d < 0 THEN -1 ELSE 1
    IN  <<(s * n) \div g, (s * d) \div g>>

Q(n, d) == Norm(n, d)
Zero == <<0, 1>>
One == <<1, 1>>
QAdd(x, y) == Norm(x[1] * y[2] + y[1] * x[2], x[2] * y[2])
QSub(x, y) == Norm(x[1] * y[2] - y[1] * x[2], x[2] * y[2])
QMul(x, y) == Norm(x[1] * y[1], x[2] * y[2])
QDiv(x, y) == Norm(x[1] * y[2], x[2] * y[1])
QLe(x, y) == x[1] * y[2] <= y[1] * x[2]
QLt(x, y) == x[1] * y[2] < y[1] * x[2]
QMin(x, y) == IF QLe(x, y) THEN x ELSE y
QMax(x, y) == IF QLe(x, y) THEN y ELSE x
QAbs(x) == <<Abs(x[1]), x[2]>>
Floor(x) == x[1] \div x[2]
Ceil(x) == -((-x[1]) \div x[2])

(***************************************************************************)
(* Parameters: the attributes __init__ creates and callers assign          *)
(* (custom_cruise_tests.py assigns m, v_desired, Kp, Ki, Kd, T_sim).       *)
(***************************************************************************)
\* A deadbeat plant (dt = tau_engine, b*dt = m) under a pure integral
\* controller with Kv*Ki*dt = b: it settles exactly in one step.
BaseParams ==
    [m |-> One, b |-> One, Kv |-> One, tau_engine |-> One,
     v_desired |-> One, Kp |-> Zero, Ki |-> One, Kd |-> Zero,
     throttle_max |-> Q(2, 1), throttle_min |-> Q(-2, 1),
     dt |-> One, T_sim |-> Q(3, 1)]

ParamSets ==
    { BaseParams,
      \* proportional controller, four steps
      [BaseParams EXCEPT !.Kp = One, !.Ki = Zero, !.v_desired = Q(2, 1),
                         !.T_sim = Q(4, 1)],
      \* full PID, throttle in [0, 1], lagging engine, T_sim not a multiple of dt
      [BaseParams EXCEPT !.m = Q(2, 1), !.Kv = Q(2, 1), !.tau_engine = Q(2, 1),
                         !.Kp = Q(2, 1), !.Kd = One, !.throttle_min = Zero,
                         !.throttle_max = One, !.T_sim = Q(7, 2)],
      \* half-second step, weak gains
      [BaseParams EXCEPT !.dt = Q(1, 2), !.Kp = Q(1, 2), !.Kd = Q(1, 4),
                         !.T_sim = Q(3, 2)],
      \* engine faster than the step (dt > 2 * tau_engine)
      [BaseParams EXCEPT !.tau_engine = Q(1, 4), !.Kp = One],
      \* throttle range that excludes 0
      [BaseParams EXCEPT !.throttle_min = One, !.throttle_max = Q(2, 1)],
      \* throttle_min > throttle_max
      [BaseParams EXCEPT !.throttle_min = One, !.throttle_max = Zero],
      \* negative mass
      [BaseParams EXCEPT !.m = Q(-1, 1)],
      \* T_sim = 0
      [BaseParams EXCEPT !.T_sim = Zero],
      \* dt = 0
      [BaseParams EXCEPT !.dt = Zero],
      \* dt > T_sim
      [BaseParams EXCEPT !.dt = Q(2, 1), !.T_sim = One, !.tau_engine = Q(2, 1)] }

(***************************************************************************)
(* State variables of the object (reset_states).                           *)
(***************************************************************************)
ZeroState ==
    [v_current |-> Zero, throttle |-> Zero, error_integral |-> Zero,
     error_prev |-> Zero, engine_state |-> Zero, vehicle_state |-> Zero]

reset_states_keep_integral(S) ==
    [ZeroState EXCEPT !.error_integral = S.error_integral]

reset_states(S) == ZeroState

(***************************************************************************)
(* pid_controller                                                          *)
(***************************************************************************)
np_clip(x, lo, hi) == QMin(QMax(x, lo), hi)

Saturate_none(P, control_signal) == control_signal

Saturate(P, control_signal) ==
    np_clip(control_signal, P.throttle_min, P.throttle_max)

AntiWindup_strict(P, integral, control_signal, error) ==
    IF QLt(P.throttle_max, control_signal) \/ QLt(control_signal, P.throttle_min)
    THEN QSub(integral, QMul(error, P.dt))
    ELSE integral

\* control_signal is the clipped signal
AntiWindup(P, integral, control_signal, error) ==
    IF QLe(P.throttle_max, control_signal) \/ QLe(control_signal, P.throttle_min)
    THEN QSub(integral, QMul(error, P.dt))
    ELSE integral

\* Requires P.dt # 0.  raw is the control signal before clipping.
pid_controller(P, S, error) ==
    LET p_term == QMul(P.Kp, error)
        integral == QAdd(S.error_integral, QMul(error, P.dt))
        i_term == QMul(P.Ki, integral)
        d_term == QDiv(QMul(P.Kd, QSub(error, S.error_prev)), P.dt)
        raw == QAdd(QAdd(p_term, i_term), d_term)
        control_signal == Saturate(P, raw)
    IN  [state |-> [S EXCEPT !.error_integral =
                                 AntiWindup(P, integral, control_signal, error),
                             !.error_prev = error],
         raw |-> raw,
         ret |-> control_signal]

(***************************************************************************)
(* engine_model, vehicle_model                                             *)
(***************************************************************************)
engine_model_plus(P, S, throttle_input) ==
    LET force_command == QMul(P.Kv, throttle_input)
        x == QAdd(S.engine_state,
                  QDiv(QMul(QAdd(force_command, S.engine_state), P.dt),
                       P.tau_engine))
    IN  [state |-> [S EXCEPT !.engine_state = x], ret |-> x]

engine_model(P, S, throttle_input) ==
    LET force_command == QMul(P.Kv, throttle_input)
        x == QAdd(S.engine_state,
                  QDiv(QMul(QSub(force_command, S.engine_state), P.dt),
                       P.tau_engine))
    IN  [state |-> [S EXCEPT !.engine_state = x], ret |-> x]

vehicle_model_drag_sign(P, S, engine_force, disturbance_force) ==
    LET total_force == QAdd(QAdd(engine_force, QMul(P.b, S.v_current)),
                            disturbance_force)
        acceleration == QDiv(total_force, P.m)
        v == QAdd(S.v_current, QMul(acceleration, P.dt))
    IN  [state |-> [S EXCEPT !.v_current = v], ret |-> v]

vehicle_model(P, S, engine_force, disturbance_force) ==
    LET total_force == QAdd(QSub(engine_force, QMul(P.b, S.v_current)),
                            disturbance_force)
        acceleration == QDiv(total_force, P.m)
        v == QAdd(S.v_current, QMul(acceleration, P.dt))
    IN  [state |-> [S EXCEPT !.v_current = v], ret |-> v]

(***************************************************************************)
(* Reference and disturbance functions.  A function of time is a record:   *)
(* kind "const" is a number passed instead of a callable, "step" is        *)
(* step_reference(initial_speed, final_speed, step_time), "grade" is       *)
(* road_grade_disturbance (force stands for -1000 * 9.81 * sin(grade_rad)),*)
(* "wind" is wind_disturbance, and "raise" is a caller's function that     *)
(* raises an exception for t >= at (and returns a before).                 *)
(***************************************************************************)
Returned(v) == [ok |-> TRUE, val |-> v]
Raised == [ok |-> FALSE, val |-> Zero]

Fn(kind, a, b, at) == [kind |-> kind, a |-> a, b |-> b, at |-> at]

RefNone == Fn("none", Zero, Zero, Zero)
RefConst(v) == Fn("const", v, v, Zero)
step_reference(initial_speed, final_speed, step_time) ==
    Fn("step", initial_speed, final_speed, step_time)
road_grade_disturbance(force, start_time) == Fn("grade", Zero, force, start_time)
wind_disturbance(wind_speed_ms) ==
    Fn("wind", Zero, QMul(Q(-3, 5), QMul(wind_speed_ms, wind_speed_ms)), Zero)
RaisingFn(a, at) == Fn("raise", a, a, at)

\* f(t) for a callable f
Apply(f, t) ==
    CASE f.kind = "step" -> Returned(IF QLe(f.at, t) THEN f.b ELSE f.a)
      [] f.kind = "grade" -> Returned(IF QLe(f.at, t) THEN f.b ELSE Zero)
      [] f.kind = "wind" -> Returned(f.b)
      [] f.kind = "raise" -> IF QLe(f.at, t) THEN Raised ELSE Returned(f.a)
      [] OTHER -> Returned(f.a)

\* v_ref of one step: reference_speed(t) if callable, else reference_speed,
\* which is self.v_desired when the argument was None
EvalRef(P, reference_speed, t) ==
    CASE reference_speed.kind = "none" -> Returned(P.v_desired)
      [] reference_speed.kind = "const" -> Returned(reference_speed.a)
      [] OTHER -> Apply(reference_speed, t)

\* The disturbances argument: None, or a list of functions.
DistNone == [given |-> FALSE, fs |-> <<>>]
DistList(fs) == [given |-> TRUE, fs |-> fs]

RECURSIVE SumFrom(_, _, _, _)
SumFrom(fs, t, k, acc) ==
    IF k > Len(fs) THEN Returned(acc)
    ELSE LET r == Apply(fs[k], t)
         IN  IF r.ok THEN SumFrom(fs, t, k + 1, QAdd(acc, r.val)) ELSE Raised

RECURSIVE LastOnly(_, _, _, _)
LastOnly(fs, t, k, acc) ==
    IF k > Len(fs) THEN Returned(acc)
    ELSE LET r == Apply(fs[k], t)
         IN  IF r.ok THEN LastOnly(fs, t, k + 1, r.val) ELSE Raised

DistForce_last(disturbances, t) ==
    IF disturbances.given /\ Len(disturbances.fs) > 0
    THEN LastOnly(disturbances.fs, t, 1, Zero)
    ELSE Returned(Zero)

\* dist_force of one step
DistForce(disturbances, t) ==
    IF disturbances.given /\ Len(disturbances.fs) > 0
    THEN SumFrom(disturbances.fs, t, 1, Zero)
    ELSE Returned(Zero)

(***************************************************************************)
(* simulate: the time grid and the body of the loop.                       *)
(***************************************************************************)
np_arange_floor(stop, step) ==
    IF step = Zero THEN [ok |-> FALSE, n |-> 0]
    ELSE LET q == Floor(QDiv(stop, step))
         IN  [ok |-> TRUE, n |-> IF q > 0 THEN q ELSE 0]

\* np.arange(0, stop, step): ceil(stop / step) values 0, step, 2*step, ...;
\* none when that is not positive; an exception when step = 0.
np_arange(stop, step) ==
    IF step = Zero THEN [ok |-> FALSE, n |-> 0]
    ELSE LET q == Ceil(QDiv(stop, step))
         IN  [ok |-> TRUE, n |-> IF q > 0 THEN q ELSE 0]

TimeGrid(n, step) == [j \in 1..n |-> QMul(Q(j - 1, 1), step)]
np_zeros(n) == [j \in 1..n |-> Zero]

TrackingError_reversed(v_ref, v_current) == QSub(v_current, v_ref)

\* error = v_ref - self.v_current
TrackingError(v_ref, v_current) == QSub(v_ref, v_current)

NoRow ==
    [v_ref |-> Zero, error |-> Zero, raw |-> Zero, integral_before |-> Zero,
     throttle_cmd |-> Zero, engine_force |-> Zero, dist_force |-> Zero,
     speed |-> Zero]

\* One iteration at time t from state S: the new state and the values it
\* computes.  It raises when reference_speed(t) raises (nothing has run) or
\* when a dist_func(t) raises (pid_controller and engine_model have run).
LoopBody(P, S, reference_speed, disturbances, t) ==
    LET r == EvalRef(P, reference_speed, t)
        error == TrackingError(r.val, S.v_current)
        pid == pid_controller(P, S, error)
        eng == engine_model(P, pid.state, pid.ret)
        df == DistForce(disturbances, t)
        veh == vehicle_model(P, eng.state, eng.ret, df.val)
        row == [NoRow EXCEPT !.v_ref = r.val, !.error = error, !.raw = pid.raw,
                             !.integral_before = S.error_integral,
                             !.throttle_cmd = pid.ret, !.engine_force = eng.ret]
    IN  IF ~r.ok
        THEN [state |-> S, raised |-> TRUE, pid_called |-> FALSE, row |-> NoRow]
        ELSE IF ~df.ok
        THEN [state |-> eng.state, raised |-> TRUE, pid_called |-> TRUE,
              row |-> row]
        ELSE [state |-> veh.state, raised |-> FALSE, pid_called |-> TRUE,
              row |-> [row EXCEPT !.dist_force = df.val, !.speed = veh.ret]]

(***************************************************************************)
(* The state machine: one object and its caller.                           *)
(***************************************************************************)
VARIABLES
    params,           \* the parameter attributes of the object
    state,            \* the state attributes of the object
    pc,               \* "idle", or "loop" inside simulate
    i,                \* the loop index of simulate
    time,             \* locals of simulate: the grid and the logs
    speed_log, throttle_log, error_log, force_log, reference_log,
    dist_log,         \* dist_force of each iteration
    reference_speed,  \* the arguments of the last simulate call
    disturbances,
    result,           \* what the last simulate call gave its caller
    pid_obs,          \* the last pid_controller call, seen from outside
    entry_dirty,      \* whether the last simulate call found a used object
    ops               \* operations the caller has performed

logs == <<time, speed_log, throttle_log, error_log, force_log, reference_log,
          dist_log>>
args == <<reference_speed, disturbances>>
vars == <<params, state, pc, i, logs, args, result, pid_obs, entry_dirty, ops>>

NoResult ==
    [kind |-> "none", time |-> <<>>, speed |-> <<>>, throttle |-> <<>>,
     error |-> <<>>, force |-> <<>>, reference |-> <<>>]
\* an exception reaches the caller: no value is returned
RaisedResult == [NoResult EXCEPT !.kind = "raised"]

NoPid ==
    [called |-> FALSE, error |-> Zero, integral_before |-> Zero, raw |-> Zero,
     ret |-> Zero]
PidObs(error, integral_before, raw, ret) ==
    [called |-> TRUE, error |-> error, integral_before |-> integral_before,
     raw |-> raw, ret |-> ret]

\* Inputs of the caller.
Errors == {Q(-1, 1), Q(1, 1), Q(3, 1)}
Throttles == {Q(1, 1)}
Forces == {Q(1, 1)}
References ==
    { RefNone, RefConst(Zero), RefConst(Q(2, 1)),
      step_reference(One, Q(4, 1), One), RaisingFn(One, Q(2, 1)) }
Hill == road_grade_disturbance(Q(-3, 1), One)
Wind == wind_disturbance(Q(5, 1))
DisturbanceArgs ==
    { DistNone, DistList(<<>>), DistList(<<Hill>>), DistList(<<Wind>>),
      DistList(<<Hill, Wind>>), DistList(<<RaisingFn(Zero, One)>>),
      DistList(<<road_grade_disturbance(One, Zero)>>) }

\* A constructed object whose parameter attributes the caller has assigned
\* (the values __init__ assigns, dt = 0.01 and T_sim = 100, make 10000 steps).
Init ==
    /\ params \in ParamSets
    /\ state = ZeroState
    /\ pc = "idle"
    /\ i = 0
    /\ time = <<>> /\ speed_log = <<>> /\ throttle_log = <<>>
    /\ error_log = <<>> /\ force_log = <<>> /\ reference_log = <<>>
    /\ dist_log = <<>>
    /\ reference_speed = RefNone
    /\ disturbances = DistNone
    /\ result = NoResult
    /\ pid_obs = NoPid
    /\ entry_dirty = FALSE
    /\ ops = 0

\* The caller assigns parameter attributes between calls.
SetParams(q) ==
    /\ pc = "idle" /\ ops < MaxOps
    /\ q # params
    /\ params' = q
    /\ result' = NoResult
    /\ pid_obs' = NoPid
    /\ ops' = ops + 1
    /\ UNCHANGED <<state, pc, i, logs, args, entry_dirty>>

\* Direct calls of the three blocks (pid_controller divides by dt).
CallPid(error) ==
    /\ pc = "idle" /\ ops < MaxOps
    /\ params.dt # Zero
    /\ LET r == pid_controller(params, state, error)
       IN  /\ state' = r.state
           /\ pid_obs' = PidObs(error, state.error_integral, r.raw, r.ret)
    /\ ops' = ops + 1
    /\ UNCHANGED <<params, pc, i, logs, args, result, entry_dirty>>

CallEngine(throttle_input) ==
    /\ pc = "idle" /\ ops < MaxOps
    /\ state' = engine_model(params, state, throttle_input).state
    /\ ops' = ops + 1
    /\ UNCHANGED <<params, pc, i, logs, args, result, pid_obs, entry_dirty>>

CallVehicle(engine_force, disturbance_force) ==
    /\ pc = "idle" /\ ops < MaxOps
    /\ state' = vehicle_model(params, state, engine_force, disturbance_force).state
    /\ ops' = ops + 1
    /\ UNCHANGED <<params, pc, i, logs, args, result, pid_obs, entry_dirty>>

\* simulate, up to the loop: the grid, the zeroed logs, reset_states.
SimulateBegin(ref, dists) ==
    /\ pc = "idle" /\ ops < MaxOps
    /\ ops' = ops + 1
    /\ reference_speed' = ref
    /\ disturbances' = dists
    /\ i' = 0
    /\ entry_dirty' = (state # ZeroState)
    /\ LET g == np_arange(params.T_sim, params.dt)
       IN  IF ~g.ok
           THEN /\ result' = RaisedResult
                /\ UNCHANGED <<params, state, pc, logs, pid_obs>>
           ELSE /\ time' = TimeGrid(g.n, params.dt)
                /\ speed_log' = np_zeros(g.n)
                /\ throttle_log' = np_zeros(g.n)
                /\ error_log' = np_zeros(g.n)
                /\ force_log' = np_zeros(g.n)
                /\ reference_log' = np_zeros(g.n)
                /\ dist_log' = np_zeros(g.n)
                /\ state' = reset_states(state)
                /\ pc' = "loop"
                /\ result' = NoResult
                /\ pid_obs' = NoPid
                /\ UNCHANGED params

\* One iteration of the loop of simulate.
SimulateStep ==
    /\ pc = "loop" /\ i < Len(time)
    /\ LET out == LoopBody(params, state, reference_speed, disturbances,
                           time[i + 1])
           row == out.row
       IN  /\ state' = out.state
           /\ pid_obs' = IF out.pid_called
                         THEN PidObs(row.error, row.integral_before, row.raw,
                                     row.throttle_cmd)
                         ELSE pid_obs
           /\ IF out.raised
              THEN /\ pc' = "idle"
                   /\ result' = RaisedResult
                   /\ time' = <<>> /\ speed_log' = <<>> /\ throttle_log' = <<>>
                   /\ error_log' = <<>> /\ force_log' = <<>>
                   /\ reference_log' = <<>> /\ dist_log' = <<>>
                   /\ UNCHANGED i
              ELSE /\ speed_log' = [speed_log EXCEPT ![i + 1] = row.speed]
                   /\ throttle_log' = [throttle_log EXCEPT ![i + 1] = row.throttle_cmd]
                   /\ error_log' = [error_log EXCEPT ![i + 1] = row.error]
                   /\ force_log' = [force_log EXCEPT ![i + 1] = row.engine_force]
                   /\ reference_log' = [reference_log EXCEPT ![i + 1] = row.v_ref]
                   /\ dist_log' = [dist_log EXCEPT ![i + 1] = row.dist_force]
                   /\ i' = i + 1
                   /\ UNCHANGED <<pc, result, time>>
    /\ UNCHANGED <<params, args, entry_dirty, ops>>

\* The loop is over: simulate returns the dictionary of the logs.
SimulateReturn ==
    /\ pc = "loop" /\ i = Len(time)
    /\ pc' = "idle"
    /\ result' = [kind |-> "returned", time |-> time, speed |-> speed_log,
                  throttle |-> throttle_log, error |-> error_log,
                  force |-> force_log, reference |-> reference_log]
    /\ UNCHANGED <<params, state, i, logs, args, pid_obs, entry_dirty, ops>>

Next ==
    \/ \E q \in ParamSets : SetParams(q)
    \/ \E e \in Errors : CallPid(e)
    \/ \E u \in Throttles : CallEngine(u)
    \/ \E f \in Forces : CallVehicle(f, Zero)
    \/ \E ref \in References, dists \in DisturbanceArgs : SimulateBegin(ref, dists)
    \/ SimulateStep
    \/ SimulateReturn

Spec == Init /\ [][Next]_vars

(***************************************************************************)
(* Properties.                                                             *)
(***************************************************************************)
InThrottleRange(u) ==
    QLe(params.throttle_min, u) /\ QLe(u, params.throttle_max)

\* the entries of the logs written so far, inside the loop
Logged == IF pc = "loop" THEN 1..i ELSE {}

PrevSpeed(j) == IF j = 1 THEN Zero ELSE speed_log[j - 1]
PrevError(j) == IF j = 1 THEN Zero ELSE error_log[j - 1]
PrevForce(j) == IF j = 1 THEN Zero ELSE force_log[j - 1]

\* C1 (saturation bound): with throttle_min < throttle_max, every value
\* pid_controller returns, every throttle entry logged and every entry of the
\* returned 'throttle' trace lies in [throttle_min, throttle_max].
C1_SaturationBound ==
    QLt(params.throttle_min, params.throttle_max) =>
        /\ pid_obs.called => InThrottleRange(pid_obs.ret)
        /\ \A j \in Logged : InThrottleRange(throttle_log[j])
        /\ \A j \in DOMAIN result.throttle : InThrottleRange(result.throttle[j])

\* a step inside a run whose raw command was above throttle_max and was clipped
C1_Witness ==
    /\ QLt(params.throttle_min, params.throttle_max)
    /\ pc = "loop" /\ i >= 2
    /\ pid_obs.called
    /\ QLt(params.throttle_max, pid_obs.raw)
    /\ throttle_log[i] = params.throttle_max

\* C2 (anti-windup): after a pid_controller step whose raw command is at or
\* beyond a bound (raw >= throttle_max or raw <= throttle_min), error_integral
\* equals its value before the step.
C2_AntiWindup ==
    ( /\ pid_obs.called
      /\ \/ QLe(params.throttle_max, pid_obs.raw)
         \/ QLe(pid_obs.raw, params.throttle_min) )
    => state.error_integral = pid_obs.integral_before

\* a step with a nonzero error whose raw command equals throttle_max exactly
C2_Witness ==
    /\ pid_obs.called
    /\ QLt(params.throttle_min, params.throttle_max)
    /\ pid_obs.raw = params.throttle_max
    /\ pid_obs.error # Zero
    /\ params.Ki # Zero
    /\ state.error_integral = pid_obs.integral_before

GridPrecondition ==
    /\ QLt(Zero, params.dt) /\ QLt(Zero, params.T_sim)
    /\ QLe(params.dt, params.T_sim)

SameLengths(n) ==
    /\ Len(result.time) = n /\ Len(result.speed) = n
    /\ Len(result.throttle) = n /\ Len(result.error) = n
    /\ Len(result.force) = n /\ Len(result.reference) = n

\* C3 as stated (trace length): for 0 < dt <= T_sim a returned trace has
\* floor(T_sim / dt) records per signal.
C3_FloorLength ==
    (result.kind = "returned" /\ GridPrecondition) =>
        SameLengths(Floor(QDiv(params.T_sim, params.dt)))

\* C3 as amended: for 0 < dt <= T_sim a returned trace has ceil(T_sim / dt)
\* records per signal, taken at the times t_j = j * dt in increasing order.
C3_CeilLength ==
    (result.kind = "returned" /\ GridPrecondition) =>
        /\ SameLengths(Ceil(QDiv(params.T_sim, params.dt)))
        /\ \A j \in DOMAIN result.time :
              /\ result.time[j] = QMul(Q(j - 1, 1), params.dt)
              /\ QLt(result.time[j], params.T_sim)
              /\ j > 1 => QLt(result.time[j - 1], result.time[j])

\* a returned trace for a T_sim that is not a multiple of dt
C3_Witness ==
    /\ result.kind = "returned" /\ GridPrecondition
    /\ Floor(QDiv(params.T_sim, params.dt)) # Ceil(QDiv(params.T_sim, params.dt))
    /\ Len(result.speed) = 4

\* The run of a freshly constructed object: k iterations from the state
\* __init__ leaves.
RECURSIVE FreshAfter(_, _, _, _)
FreshAfter(P, ref, dists, k) ==
    IF k = 0 THEN [state |-> ZeroState, raised |-> FALSE, rows |-> <<>>]
    ELSE LET prev == FreshAfter(P, ref, dists, k - 1)
             out == LoopBody(P, prev.state, ref, dists, QMul(Q(k - 1, 1), P.dt))
         IN  IF prev.raised THEN prev
             ELSE IF out.raised THEN [prev EXCEPT !.raised = TRUE]
             ELSE [state |-> out.state, raised |-> FALSE,
                   rows |-> Append(prev.rows, out.row)]

FreshResult(P, ref, dists) ==
    LET g == np_arange(P.T_sim, P.dt)
        f == FreshAfter(P, ref, dists, g.n)
    IN  IF ~g.ok \/ f.raised THEN RaisedResult
        ELSE [kind |-> "returned",
              time |-> TimeGrid(g.n, P.dt),
              speed |-> [j \in 1..g.n |-> f.rows[j].speed],
              throttle |-> [j \in 1..g.n |-> f.rows[j].throttle_cmd],
              error |-> [j \in 1..g.n |-> f.rows[j].error],
              force |-> [j \in 1..g.n |-> f.rows[j].engine_force],
              reference |-> [j \in 1..g.n |-> f.rows[j].v_ref]]

\* C4 (determinism, no carry-over): what simulate gives its caller is what a
\* freshly constructed object with the same parameters gives for the same
\* reference and disturbances, whatever was done to the object before; the
\* loop starts from the all-zero state.
C4_NoCarryOver ==
    /\ result.kind # "none" =>
          result = FreshResult(params, reference_speed, disturbances)
    /\ (pc = "loop" /\ i = 0) => state = ZeroState

\* a run of three steps or more, returned by an object that had been used
C4_Witness ==
    /\ result.kind = "returned"
    /\ entry_dirty
    /\ Len(result.speed) >= 3
    /\ result.speed[3] # Zero

ValidParams(P) ==
    /\ QLt(Zero, P.m) /\ QLt(Zero, P.tau_engine) /\ QLt(Zero, P.dt)
    /\ QLt(P.throttle_min, P.throttle_max) /\ QLt(Zero, P.T_sim)

\* C5 (eager validation): with parameters that violate an invariant, simulate
\* executes no step and returns no trace.
C5_EagerValidation ==
    ~ValidParams(params) => (pc = "idle" /\ result.kind # "returned")

\* C6 (partial output): when a reference or disturbance function raises at
\* step k of a run with valid parameters, the caller receives the k records
\* produced before it.
C6_PartialRecords ==
    (ValidParams(params) /\ result.kind = "raised" /\ i > 0) =>
        /\ Len(result.speed) = i /\ Len(result.throttle) = i
        /\ Len(result.error) = i /\ Len(result.force) = i

\* f1(t) + f2(t) + ... written out for the lists of up to two functions
SuperposedForce(t) ==
    IF ~disturbances.given \/ Len(disturbances.fs) = 0 THEN Zero
    ELSE IF Len(disturbances.fs) = 1 THEN Apply(disturbances.fs[1], t).val
    ELSE QAdd(Apply(disturbances.fs[1], t).val, Apply(disturbances.fs[2], t).val)

\* C7 (superposition): at every step the disturbance force is the sum of f(t_j)
\* over the disturbances (0 for None or an empty list), taken at the time at
\* which the reference is evaluated, and it is the force vehicle_model adds.
C7_Superposition ==
    \A j \in Logged :
        /\ dist_log[j] = SuperposedForce(time[j])
        /\ reference_log[j] = EvalRef(params, reference_speed, time[j]).val
        /\ speed_log[j] =
              QAdd(PrevSpeed(j),
                   QMul(QDiv(QAdd(QSub(force_log[j],
                                       QMul(params.b, PrevSpeed(j))),
                                  SuperposedForce(time[j])),
                             params.m),
                        params.dt))

\* a step at which two disturbances are both nonzero
C7_Witness ==
    /\ pc = "loop" /\ i >= 2
    /\ disturbances.given /\ Len(disturbances.fs) = 2
    /\ Apply(disturbances.fs[1], time[i]).val # Zero
    /\ Apply(disturbances.fs[2], time[i]).val # Zero
    /\ dist_log[i] = QAdd(Apply(disturbances.fs[1], time[i]).val,
                          Apply(disturbances.fs[2], time[i]).val)

Tol == Q(1, 2)
ConstantReference == reference_speed.kind \in {"none", "const"}
Unsaturated(u) ==
    QLt(params.throttle_min, u) /\ QLt(u, params.throttle_max)

\* C8 as stated (zero-error fixed point): with valid parameters and a constant
\* reference, after a step with zero error and an unsaturated command the
\* velocity of every later step is within Tol of the reference.
C8_ZeroErrorFixedPoint ==
    (ValidParams(params) /\ ConstantReference) =>
        \A j \in Logged :
            (error_log[j] = Zero /\ Unsaturated(throttle_log[j])) =>
                \A k \in Logged :
                    k > j => QLe(QAbs(QSub(speed_log[k], reference_log[j])), Tol)

\* step j is an equilibrium: zero error, zero derivative term, unsaturated
\* command, settled engine, zero net force on the vehicle
Balanced(j) ==
    /\ error_log[j] = Zero
    /\ (params.Kd = Zero \/ PrevError(j) = Zero)
    /\ Unsaturated(throttle_log[j])
    /\ force_log[j] = QMul(params.Kv, throttle_log[j])
    /\ QAdd(QSub(force_log[j], QMul(params.b, reference_log[j])), dist_log[j]) = Zero

\* C8 as amended: under a constant reference, from a step that is an
\* equilibrium on, the velocity equals the reference for as long as the
\* disturbance force keeps its value.
C8_BalancedFixedPoint ==
    ConstantReference =>
        \A j \in Logged :
            Balanced(j) =>
                \A k \in Logged :
                    (k >= j /\ \A l \in j..k : dist_log[l] = dist_log[j]) =>
                        speed_log[k] = reference_log[j]

\* an equilibrium at a nonzero speed, followed by a step
C8_Witness ==
    /\ ConstantReference
    /\ pc = "loop"
    /\ \E j \in Logged :
          /\ Balanced(j) /\ j < i
          /\ reference_log[j] # Zero
          /\ dist_log[j + 1] = dist_log[j]

\* error_integral after step j, recomputed from the logged errors
RECURSIVE IntegralAfter(_)
IntegralAfter(j) ==
    IF j = 0 THEN Zero
    ELSE LET before == IntegralAfter(j - 1)
             integral == QAdd(before, QMul(error_log[j], params.dt))
             raw == QAdd(QAdd(QMul(params.Kp, error_log[j]),
                              QMul(params.Ki, integral)),
                         QDiv(QMul(params.Kd, QSub(error_log[j], PrevError(j))),
                              params.dt))
         IN  IF QLe(params.throttle_max, raw) \/ QLe(raw, params.throttle_min)
             THEN before ELSE integral

ThrottleFromError(j) ==
    LET integral == QAdd(IntegralAfter(j - 1), QMul(error_log[j], params.dt))
        raw == QAdd(QAdd(QMul(params.Kp, error_log[j]),
                         QMul(params.Ki, integral)),
                    QDiv(QMul(params.Kd, QSub(error_log[j], PrevError(j))),
                         params.dt))
    IN  QMin(QMax(raw, params.throttle_min), params.throttle_max)

\* C9 (order of a step): error[j] is reference[j] minus the velocity step j-1
\* left (0 at the first step), throttle[j] is the PID output for error[j],
\* force[j] is the engine state after that throttle, and speed[j] is the
\* velocity after that force and the disturbance of t_j.
C9_StepOrder ==
    \A j \in Logged :
        /\ error_log[j] = QSub(reference_log[j], PrevSpeed(j))
        /\ throttle_log[j] = ThrottleFromError(j)
        /\ force_log[j] =
              QAdd(PrevForce(j),
                   QDiv(QMul(QSub(QMul(params.Kv, throttle_log[j]), PrevForce(j)),
                             params.dt),
                        params.tau_engine))
        /\ speed_log[j] =
              QAdd(PrevSpeed(j),
                   QMul(QDiv(QAdd(QSub(force_log[j],
                                       QMul(params.b, PrevSpeed(j))),
                                  dist_log[j]),
                             params.m),
                        params.dt))
        /\ (j = i) => /\ state.v_current = speed_log[j]
                      /\ state.engine_state = force_log[j]
                      /\ state.error_prev = error_log[j]

\* a third step with a nonzero error, after the velocity has moved under a
\* disturbance
C9_Witness ==
    /\ pc = "loop" /\ i >= 3
    /\ speed_log[1] # Zero
    /\ speed_log[2] # speed_log[1]
    /\ error_log[3] # Zero
    /\ dist_log[2] # Zero
    /\ force_log[3] # force_log[2]

ActuatorPrecondition ==
    /\ QLe(Zero, params.Kv)
    /\ QLt(Zero, params.dt) /\ QLe(params.dt, params.tau_engine)
    /\ QLe(params.throttle_min, Zero) /\ QLe(Zero, params.throttle_max)

InForceRange(x) ==
    /\ QLe(QMul(params.Kv, params.throttle_min), x)
    /\ QLe(x, QMul(params.Kv, params.throttle_max))

Between(a, x, c) == (QLe(a, x) /\ QLe(x, c)) \/ (QLe(c, x) /\ QLe(x, a))

\* C10 (actuator bound): in a run with Kv >= 0, 0 < dt <= tau_engine and
\* throttle_min <= 0 <= throttle_max, engine_state and every force logged lie
\* in [Kv * throttle_min, Kv * throttle_max], and each step leaves the engine
\* state between its old value and Kv * throttle.
C10_ActuatorBound ==
    ActuatorPrecondition =>
        /\ pc = "loop" => InForceRange(state.engine_state)
        /\ \A j \in Logged :
              /\ InForceRange(force_log[j])
              /\ Between(PrevForce(j), force_log[j],
                         QMul(params.Kv, throttle_log[j]))
        /\ \A j \in DOMAIN result.force : InForceRange(result.force[j])

\* a lagging engine (dt < tau_engine) part of the way to its target
C10_Witness ==
    /\ ActuatorPrecondition
    /\ pc = "loop" /\ i >= 2
    /\ QLt(params.dt, params.tau_engine)
    /\ force_log[2] # force_log[1]
    /\ force_log[2] # QMul(params.Kv, throttle_log[2])

====
